---- MODULE Spec2Model ----
(***************************************************************************)
(* The Cloudflare infrastructure program of docx-mcp (infra/__main__.py)   *)
(* as a state machine: the program declares five resources, one data       *)
(* source lookup, one derived credential and eight stack exports; the      *)
(* provisioning engine it is handed to applies the resources concurrently. *)
(***************************************************************************)
EXTENDS Integers, Sequences, FiniteSets, TLC

\* ------------------------------------------------------------------ bounds
MaxRuns == 2
MaxFailures == 1
MaxDrift == 1

\* ------------------------------------------------------------------ state
VARIABLES
  run,         \* number of the current run of the program
  pc,          \* index of the next statement of Program; Crashed after a raise
  perms,       \* id returned by the permission group lookup, once it returned
  inputs,      \* per node: the inputs its constructor was called with
  order,       \* the nodes in the order the program handed them to the engine
  status,      \* per node: Pending | Applying | Applied | Failed
  error,       \* per node: the error recorded at its failure
  calls,       \* per node: backend calls issued in this run
  managed,     \* per node: the managed (live) state the engine holds for it
  derived,     \* the derived r2_secret_access_key, once computed
  exported,    \* the result of this run, once it ended
  prev,        \* the result of the previous run
  failures,    \* backend failures injected so far
  tokenSecret  \* whether the provider classifies the token value as secret

vars ==
  << run, pc, perms, inputs, order, status, error, calls, managed, derived,
     exported, prev, failures, tokenSecret >>

\* ------------------------------------------------- the declared resources
Nodes ==
  {"docx-storage", "docx-r2-token", "docx-storage-kv", "docx-auth-db", "docx-session-kv"}

AccountId == "accountId"

PermGroupId == "id of Workers R2 Storage Write"

Unresolved == "unresolved"

TokenValues == {"t0ken", "t1ken"}

Kind(n) ==
  CASE n = "docx-storage"    -> "R2Bucket"
    [] n = "docx-r2-token"   -> "ApiToken"
    [] n = "docx-storage-kv" -> "WorkersKvNamespace"
    [] n = "docx-auth-db"    -> "D1Database"
    [] n = "docx-session-kv" -> "WorkersKvNamespace"

\* Mutant: docx-auth-db declared before docx-storage-kv.
ProgramSwapped ==
  << [op |-> "resource", node |-> "docx-storage"],
     [op |-> "invoke",   node |-> "r2_write_perms"],
     [op |-> "resource", node |-> "docx-r2-token"],
     [op |-> "derive",   node |-> "r2_secret_access_key"],
     [op |-> "resource", node |-> "docx-auth-db"],
     [op |-> "resource", node |-> "docx-storage-kv"],
     [op |-> "resource", node |-> "docx-session-kv"],
     [op |-> "export",   node |-> "outputs"] >>

\* The statements of the program, top to bottom.
Program ==
  << [op |-> "resource", node |-> "docx-storage"],
     [op |-> "invoke",   node |-> "r2_write_perms"],
     [op |-> "resource", node |-> "docx-r2-token"],
     [op |-> "derive",   node |-> "r2_secret_access_key"],
     [op |-> "resource", node |-> "docx-storage-kv"],
     [op |-> "resource", node |-> "docx-auth-db"],
     [op |-> "resource", node |-> "docx-session-kv"],
     [op |-> "export",   node |-> "outputs"] >>

\* Mutant: the KV namespace title changes from run to run.
InputsPerRun(n, p) ==
  CASE n = "docx-storage" ->
         [account_id |-> AccountId, name |-> "docx-mcp-storage", location |-> "WEUR"]
    [] n = "docx-r2-token" ->
         [name |-> "docx-mcp-storage-r2",
          policies |-> [effect |-> "allow", permission_groups |-> p, resources |-> AccountId]]
    [] n = "docx-storage-kv" ->
         [account_id |-> AccountId,
          title |-> IF run = 1 THEN "docx-mcp-storage-index" ELSE "docx-mcp-storage-index-next"]
    [] n = "docx-auth-db" ->
         [account_id |-> AccountId, name |-> "docx-mcp-auth", read_replication |-> "disabled"]
    [] n = "docx-session-kv" ->
         [account_id |-> AccountId, title |-> "SESSION"]

\* The input attributes each constructor is called with; p is the id of the
\* permission group the data source lookup returned.
Inputs(n, p) ==
  CASE n = "docx-storage" ->
         [account_id |-> AccountId, name |-> "docx-mcp-storage", location |-> "WEUR"]
    [] n = "docx-r2-token" ->
         [name |-> "docx-mcp-storage-r2",
          policies |-> [effect |-> "allow", permission_groups |-> p, resources |-> AccountId]]
    [] n = "docx-storage-kv" ->
         [account_id |-> AccountId, title |-> "docx-mcp-storage-index"]
    [] n = "docx-auth-db" ->
         [account_id |-> AccountId, name |-> "docx-mcp-auth", read_replication |-> "disabled"]
    [] n = "docx-session-kv" ->
         [account_id |-> AccountId, title |-> "SESSION"]

\* Mutant: docx-auth-db declared without its protect option.
ProtectSessionOnly(n) == n \in {"docx-session-kv"}

Protect(n) == n \in {"docx-auth-db", "docx-session-kv"}

NoImport == "no-import-id"

\* No constructor passes an import id; the two external ids appear in
\* comments only.
ImportId(n) == NoImport

\* ------------------------------------------------------ derived credential
Sha256(v) ==
  CASE v = "t0ken" -> "b46c09677343261f0b439a472422225e3a230c9c094d6ab16762e2036b597053"
    [] v = "t1ken" -> "d470c28826b53eb314867edd2703bda1bf4d7a6ff748cd05d0f09c3f2e5e24a4"
    [] OTHER       -> "digest-of-an-unresolved-value"

\* Mutant: the callback runs as soon as the token's apply has begun.
DeriveEager(tokenStatus) == tokenStatus \in {"Applying", "Applied"}

\* A callback attached to an output runs once that output is known.
DeriveReady(tokenStatus) == tokenStatus = "Applied"

\* The callback's result carries the secret classification of its input.
DerivedSecret(inputSecret) == inputSecret

\* ------------------------------------------------------------ the exports
\* Mutant: r2_bucket_name exported as a literal instead of storage_bucket.name.
ExportsLiteralBucket ==
  << [name |-> "cloudflare_account_id",   source |-> "config",  node |-> "-",               attr |-> "accountId", secret |-> FALSE],
     [name |-> "r2_bucket_name",          source |-> "config",  node |-> "-",               attr |-> "name",      secret |-> FALSE],
     [name |-> "r2_endpoint",             source |-> "concat",  node |-> "-",               attr |-> "accountId", secret |-> FALSE],
     [name |-> "r2_access_key_id",        source |-> "attr",    node |-> "docx-r2-token",   attr |-> "id",        secret |-> FALSE],
     [name |-> "r2_secret_access_key",    source |-> "derived", node |-> "docx-r2-token",   attr |-> "value",     secret |-> TRUE],
     [name |-> "storage_kv_namespace_id", source |-> "attr",    node |-> "docx-storage-kv", attr |-> "id",        secret |-> FALSE],
     [name |-> "auth_d1_database_id",     source |-> "attr",    node |-> "docx-auth-db",    attr |-> "id",        secret |-> FALSE],
     [name |-> "session_kv_namespace_id", source |-> "attr",    node |-> "docx-session-kv", attr |-> "id",        secret |-> FALSE] >>

\* Mutant: r2_secret_access_key exported without the Output.secret wrapper.
ExportsUnwrapped ==
  << [name |-> "cloudflare_account_id",   source |-> "config",  node |-> "-",               attr |-> "accountId", secret |-> FALSE],
     [name |-> "r2_bucket_name",          source |-> "attr",    node |-> "docx-storage",    attr |-> "name",      secret |-> FALSE],
     [name |-> "r2_endpoint",             source |-> "concat",  node |-> "-",               attr |-> "accountId", secret |-> FALSE],
     [name |-> "r2_access_key_id",        source |-> "attr",    node |-> "docx-r2-token",   attr |-> "id",        secret |-> FALSE],
     [name |-> "r2_secret_access_key",    source |-> "derived", node |-> "docx-r2-token",   attr |-> "value",     secret |-> FALSE],
     [name |-> "storage_kv_namespace_id", source |-> "attr",    node |-> "docx-storage-kv", attr |-> "id",        secret |-> FALSE],
     [name |-> "auth_d1_database_id",     source |-> "attr",    node |-> "docx-auth-db",    attr |-> "id",        secret |-> FALSE],
     [name |-> "session_kv_namespace_id", source |-> "attr",    node |-> "docx-session-kv", attr |-> "id",        secret |-> FALSE] >>

\* The eight pulumi.export calls: name, source, and the Output.secret wrapper.
Exports ==
  << [name |-> "cloudflare_account_id",   source |-> "config",  node |-> "-",               attr |-> "accountId", secret |-> FALSE],
     [name |-> "r2_bucket_name",          source |-> "attr",    node |-> "docx-storage",    attr |-> "name",      secret |-> FALSE],
     [name |-> "r2_endpoint",             source |-> "concat",  node |-> "-",               attr |-> "accountId", secret |-> FALSE],
     [name |-> "r2_access_key_id",        source |-> "attr",    node |-> "docx-r2-token",   attr |-> "id",        secret |-> FALSE],
     [name |-> "r2_secret_access_key",    source |-> "derived", node |-> "docx-r2-token",   attr |-> "value",     secret |-> TRUE],
     [name |-> "storage_kv_namespace_id", source |-> "attr",    node |-> "docx-storage-kv", attr |-> "id",        secret |-> FALSE],
     [name |-> "auth_d1_database_id",     source |-> "attr",    node |-> "docx-auth-db",    attr |-> "id",        secret |-> FALSE],
     [name |-> "session_kv_namespace_id", source |-> "attr",    node |-> "docx-session-kv", attr |-> "id",        secret |-> FALSE] >>

ExportNames == {Exports[i].name : i \in 1..Len(Exports)}

ExportOf(name) == CHOOSE e \in {Exports[i] : i \in 1..Len(Exports)} : e.name = name

\* The nodes an export's source reads.
ExportNeeds(e) == IF e.source \in {"attr", "derived"} THEN {e.node} ELSE {}

\* ------------------------------------------------------- run bookkeeping
Crashed == 0

Done == Len(Program) + 1

NoState == [tag |-> "none"]

NoResult == [kind |-> "none"]

NotComputed == [tag |-> "none"]

NoCalls == [create |-> 0, read |-> 0, update |-> 0, delete |-> 0]

Declared(n) == \E i \in 1..Len(order) : order[i] = n

DeriveRegistered == \E i \in 1..Len(Program) : Program[i].op = "derive" /\ i < pc

\* ------------------------------------------------------ the engine's policy
\* Attributes whose change cannot be applied in place.
ForceNew(kind) ==
  CASE kind = "R2Bucket"           -> {"account_id", "name", "location"}
    [] kind = "ApiToken"           -> {}
    [] kind = "WorkersKvNamespace" -> {"account_id"}
    [] kind = "D1Database"         -> {"account_id", "name"}

Diff(n) == {a \in DOMAIN inputs[n] : managed[n].inputs[a] # inputs[n][a]}

\* The step the engine takes for a declared node.
Step(n) ==
  IF managed[n].tag = "none"
    THEN IF ImportId(n) # NoImport THEN "import" ELSE "create"
    ELSE IF Diff(n) = {} THEN "same"
    ELSE IF Diff(n) \cap ForceNew(Kind(n)) = {} THEN "update"
    ELSE IF Protect(n) THEN "protected"
    ELSE "replace"

IssuedCalls(step) ==
  CASE step = "import"  -> [NoCalls EXCEPT !.read = 1]
    [] step = "create"  -> [NoCalls EXCEPT !.create = 1]
    [] step = "update"  -> [NoCalls EXCEPT !.update = 1]
    [] step = "replace" -> [NoCalls EXCEPT !.create = 1, !.delete = 1]
    [] OTHER            -> NoCalls

\* The live state the backend returns for a step; v is the token value the
\* backend generates at a create.
LiveState(n, step, v) ==
  CASE step = "create" ->
         [tag |-> "live", inputs |-> inputs[n], id |-> 1,
          value |-> IF Kind(n) = "ApiToken" THEN v ELSE "-"]
    [] step = "replace" ->
         [tag |-> "live", inputs |-> inputs[n], id |-> managed[n].id + 1,
          value |-> IF Kind(n) = "ApiToken" THEN v ELSE "-"]
    [] step = "import" ->
         [tag |-> "live", inputs |-> inputs[n], id |-> ImportId(n),
          value |-> IF Kind(n) = "ApiToken" THEN v ELSE "-"]
    [] step = "update" ->
         [managed[n] EXCEPT !.inputs = inputs[n]]
    [] OTHER -> managed[n]

\* ------------------------------------------------------------------- Init
Older(n, a) ==
  IF a = "policies"
    THEN [effect |-> "deny", permission_groups |-> PermGroupId, resources |-> AccountId]
    ELSE "old"

DriftPairs == UNION {{<<n, a>> : a \in DOMAIN Inputs(n, PermGroupId)} : n \in Nodes}

\* The state an earlier deployment left, its declaration differing from the
\* present one in the attributes of D.
Deployed(D, v) ==
  [n \in Nodes |->
     [tag    |-> "live",
      inputs |-> [a \in DOMAIN Inputs(n, PermGroupId) |->
                    IF <<n, a>> \in D THEN Older(n, a) ELSE Inputs(n, PermGroupId)[a]],
      id     |-> 1,
      value  |-> IF Kind(n) = "ApiToken" THEN v ELSE "-"]]

Init ==
  /\ run = 1
  /\ pc = 1
  /\ perms = Unresolved
  /\ inputs = [n \in Nodes |-> Inputs(n, Unresolved)]
  /\ order = << >>
  /\ status = [n \in Nodes |-> "Pending"]
  /\ error = [n \in Nodes |-> "none"]
  /\ calls = [n \in Nodes |-> NoCalls]
  /\ managed \in {[n \in Nodes |-> NoState]}
                 \cup {Deployed(D, v) : D \in {X \in SUBSET DriftPairs : Cardinality(X) <= MaxDrift},
                                        v \in TokenValues}
  /\ derived = NotComputed
  /\ exported = NoResult
  /\ prev = NoResult
  /\ failures = 0
  /\ tokenSecret \in BOOLEAN

\* ------------------------------------------------- the program's statements
\* A resource constructor: the node is handed to the engine with its inputs.
Register ==
  /\ pc \in 1..Len(Program)
  /\ Program[pc].op = "resource"
  /\ inputs' = [inputs EXCEPT ![Program[pc].node] = Inputs(Program[pc].node, perms)]
  /\ order' = Append(order, Program[pc].node)
  /\ pc' = pc + 1
  /\ UNCHANGED << run, perms, status, error, calls, managed, derived, exported,
                  prev, failures, tokenSecret >>

\* The permission group lookup returns; the program reads results[0].id.
Invoke ==
  /\ pc \in 1..Len(Program)
  /\ Program[pc].op = "invoke"
  /\ perms' = PermGroupId
  /\ pc' = pc + 1
  /\ UNCHANGED << run, inputs, order, status, error, calls, managed, derived,
                  exported, prev, failures, tokenSecret >>

\* The lookup raises (or returns no result): the program stops there.
InvokeFail ==
  /\ pc \in 1..Len(Program)
  /\ Program[pc].op = "invoke"
  /\ failures < MaxFailures
  /\ failures' = failures + 1
  /\ pc' = Crashed
  /\ UNCHANGED << run, perms, inputs, order, status, error, calls, managed,
                  derived, exported, prev, tokenSecret >>

\* r2_token.value.apply(...) attaches the callback.
RegisterDerive ==
  /\ pc \in 1..Len(Program)
  /\ Program[pc].op = "derive"
  /\ pc' = pc + 1
  /\ UNCHANGED << run, perms, inputs, order, status, error, calls, managed,
                  derived, exported, prev, failures, tokenSecret >>

\* The pulumi.export calls register the stack outputs.
RegisterExports ==
  /\ pc \in 1..Len(Program)
  /\ Program[pc].op = "export"
  /\ pc' = pc + 1
  /\ UNCHANGED << run, perms, inputs, order, status, error, calls, managed,
                  derived, exported, prev, failures, tokenSecret >>

\* ------------------------------------------------------- the engine's steps
\* The engine takes up a declared node: it decides the step and issues the
\* backend call; a step without a backend call is over at once.
Start(n) ==
  /\ exported.kind = "none"
  /\ Declared(n)
  /\ status[n] = "Pending"
  /\ LET step == Step(n) IN
       /\ status' = [status EXCEPT ![n] =
                       CASE step = "same"      -> "Applied"
                         [] step = "protected" -> "Failed"
                         [] OTHER              -> "Applying"]
       /\ error' = [error EXCEPT ![n] =
                      IF step = "protected" THEN "ProtectedResourceError" ELSE "none"]
       /\ calls' = [calls EXCEPT ![n] = IssuedCalls(step)]
  /\ UNCHANGED << run, pc, perms, inputs, order, managed, derived, exported,
                  prev, failures, tokenSecret >>

\* The backend call of n returns: its result becomes the node's live state.
\* The backend generates a token value v at the create of the API token only.
Finish(n) ==
  /\ status[n] = "Applying"
  /\ \E v \in TokenValues :
       /\ (Kind(n) # "ApiToken" \/ Step(n) = "update") => v = "t0ken"
       /\ managed' = [managed EXCEPT ![n] = LiveState(n, Step(n), v)]
  /\ status' = [status EXCEPT ![n] = "Applied"]
  /\ UNCHANGED << run, pc, perms, inputs, order, error, calls, derived, exported,
                  prev, failures, tokenSecret >>

\* The backend call of n fails.
BackendFail(n) ==
  /\ status[n] = "Applying"
  /\ failures < MaxFailures
  /\ failures' = failures + 1
  /\ status' = [status EXCEPT ![n] = "Failed"]
  /\ error' = [error EXCEPT ![n] = "BackendError"]
  /\ UNCHANGED << run, pc, perms, inputs, order, calls, managed, derived,
                  exported, prev, tokenSecret >>

\* The callback of r2_secret_access_key runs on the token value.
DeriveApply ==
  /\ DeriveRegistered
  /\ derived.tag = "none"
  /\ DeriveReady(status["docx-r2-token"])
  /\ derived' = [tag    |-> "value",
                 value  |-> Sha256(IF managed["docx-r2-token"].tag = "live"
                                     THEN managed["docx-r2-token"].value
                                     ELSE Unresolved),
                 secret |-> DerivedSecret(tokenSecret)]
  /\ UNCHANGED << run, pc, perms, inputs, order, status, error, calls, managed,
                  exported, prev, failures, tokenSecret >>

\* ------------------------------------------------------------ end of a run
Halted == pc = Crashed \/ \E n \in Nodes : status[n] = "Failed"

\* No backend call is in flight and nothing is left that will still start.
Settled ==
  /\ \A n \in Nodes : status[n] # "Applying"
  /\ \A n \in Nodes : (Declared(n) /\ status[n] = "Pending") => Halted
  /\ (DeriveRegistered /\ DeriveReady(status["docx-r2-token"])) => derived.tag # "none"

Resolved(e) ==
  /\ \A n \in ExportNeeds(e) : status[n] = "Applied"
  /\ e.source = "derived" => derived.tag # "none"

ExportValue(e) ==
  CASE e.source = "config"  -> AccountId
    [] e.source = "concat"  -> << "https://", AccountId, ".r2.cloudflarestorage.com" >>
    [] e.source = "derived" -> derived.value
    [] e.source = "attr" /\ e.attr = "id" -> managed[e.node].id
    [] OTHER -> managed[e.node].inputs[e.attr]

ExportSecret(e) ==
  \/ e.secret
  \/ e.source = "derived" /\ derived.secret

\* The exporter assembles the export set from the registered exports.
Exporter ==
  /\ pc = Done
  /\ exported.kind = "none"
  /\ Settled
  /\ exported' =
       IF \A i \in 1..Len(Exports) : Resolved(Exports[i])
         THEN [kind   |-> "ExportSet",
               values |-> [name \in ExportNames |-> ExportValue(ExportOf(name))],
               secret |-> {name \in ExportNames : ExportSecret(ExportOf(name))}]
         ELSE [kind |-> "UnresolvedExportError"]
  /\ UNCHANGED << run, pc, perms, inputs, order, status, error, calls, managed,
                  derived, prev, failures, tokenSecret >>

\* The program raised before it registered its exports.
Abort ==
  /\ pc = Crashed
  /\ exported.kind = "none"
  /\ Settled
  /\ exported' = [kind |-> "ProgramError"]
  /\ UNCHANGED << run, pc, perms, inputs, order, status, error, calls, managed,
                  derived, prev, failures, tokenSecret >>

\* The operator runs the same program again on the managed state left behind.
NextRun ==
  /\ exported.kind # "none"
  /\ run < MaxRuns
  /\ run' = run + 1
  /\ pc' = 1
  /\ perms' = Unresolved
  /\ inputs' = [n \in Nodes |-> Inputs(n, Unresolved)]
  /\ order' = << >>
  /\ status' = [n \in Nodes |-> "Pending"]
  /\ error' = [n \in Nodes |-> "none"]
  /\ calls' = [n \in Nodes |-> NoCalls]
  /\ derived' = NotComputed
  /\ prev' = exported
  /\ exported' = NoResult
  /\ UNCHANGED << managed, failures, tokenSecret >>

Next ==
  \/ Register
  \/ Invoke
  \/ InvokeFail
  \/ RegisterDerive
  \/ RegisterExports
  \/ \E n \in Nodes : Start(n)
  \/ \E n \in Nodes : Finish(n)
  \/ \E n \in Nodes : BackendFail(n)
  \/ DeriveApply
  \/ Exporter
  \/ Abort
  \/ NextRun

Spec == Init /\ [][Next]_vars

\* ================================================================= claims
Token == "docx-r2-token"

PreExisting == {"docx-auth-db", "docx-session-kv"}

Mutations(n) == calls[n].create + calls[n].update + calls[n].delete

NeedsReplace(n) ==
  /\ Declared(n)
  /\ managed[n].tag = "live"
  /\ Diff(n) \cap ForceNew(Kind(n)) # {}

\* C1: nothing is applied before what it depends on: the token is handed to
\* the engine only with the looked-up permission group id among its inputs,
\* and the derived r2_secret_access_key is computed only once docx-r2-token
\* is Applied, from the token value of its live state.
C1_AppliedAfterDependencies ==
  /\ \A n \in Nodes : status[n] # "Pending" => Declared(n)
  /\ Declared(Token) => inputs[Token].policies.permission_groups = PermGroupId
  /\ derived.tag = "value" =>
       /\ status[Token] = "Applied"
       /\ managed[Token].tag = "live"
       /\ derived.value = Sha256(managed[Token].value)

\* C1 witness: the token was created in this run and the key derived from it.
C1_Witness ==
  /\ calls[Token].create = 1
  /\ status[Token] = "Applied"
  /\ derived.tag = "value"

\* C3: a run that follows a fully successful run issues no create, update or
\* delete call, and the export set it yields is the previous run's.
C3_SecondRunIsNoOp ==
  prev.kind = "ExportSet" =>
    /\ \A n \in Nodes : Mutations(n) = 0
    /\ exported.kind \notin {"none", "ProgramError"} => exported = prev

\* C3 witness: a second run ended with an export set after a successful first.
C3_Witness ==
  /\ run = 2
  /\ prev.kind = "ExportSet"
  /\ exported.kind = "ExportSet"
  /\ \A n \in Nodes : status[n] = "Applied"

\* C4: no delete (hence no replace) is ever issued against docx-auth-db or
\* docx-session-kv; when the declared inputs of one of them differ from its
\* managed state in an attribute that forces replacement, its apply fails with
\* ProtectedResourceError and no backend call is issued for it.
C4_ProtectedNeverReplaced ==
  \A n \in PreExisting :
    /\ calls[n].delete = 0
    /\ (NeedsReplace(n) /\ status[n] # "Pending") =>
         /\ status[n] = "Failed"
         /\ error[n] = "ProtectedResourceError"
         /\ calls[n] = NoCalls

\* C4 witness: a protected node whose change needs a replacement has failed.
C4_Witness ==
  \E n \in PreExisting :
    /\ NeedsReplace(n)
    /\ status[n] = "Failed"
    /\ error[n] = "ProtectedResourceError"

\* C5: docx-auth-db and docx-session-kv are imported, never created: applied
\* without prior managed state, each gets exactly one read call and no create
\* call.
C5_ImportedNotCreated ==
  \A n \in PreExisting :
    /\ calls[n].create = 0
    /\ (status[n] = "Applying" /\ managed[n].tag = "none") => calls[n].read = 1

\* C6: the derived r2_secret_access_key is secret whenever the token value it
\* is computed from is secret, and every export set lists r2_secret_access_key
\* in its secret set.
C6_SecretIsSticky ==
  /\ (derived.tag = "value" /\ tokenSecret) => derived.secret
  /\ exported.kind = "ExportSet" => "r2_secret_access_key" \in exported.secret

\* C6 witness: an export set was produced from a secret token value.
C6_Witness ==
  /\ tokenSecret
  /\ derived.tag = "value"
  /\ exported.kind = "ExportSet"

\* C7: an export set is produced only when all five nodes (each the source of
\* an export) are Applied and the derived key is computed; when the exports
\* are registered and some node did not reach Applied, the run ends with
\* UnresolvedExportError.
C7_ExportNeedsApplied ==
  /\ exported.kind = "ExportSet" =>
       /\ \A n \in Nodes : status[n] = "Applied"
       /\ derived.tag = "value"
  /\ (pc = Done /\ exported.kind # "none" /\ \E n \in Nodes : status[n] # "Applied") =>
       exported.kind = "UnresolvedExportError"

\* C7 witness: a run ended with UnresolvedExportError after a node failed.
C7_Witness ==
  /\ exported.kind = "UnresolvedExportError"
  /\ \E n \in Nodes : status[n] = "Failed"

====
